---- MODULE Spec2Model ----
(***************************************************************************)
(* WireState: the analyzer (src/src/analyzer.js), its import cache and the  *)
(* command line entry point (src/unnamed/part_000).                         *)
(*                                                                          *)
(* Three specifications share the variables below:                          *)
(*   SpecCli   the command line: main and readOption over bounded argv      *)
(*   SpecTree  the per-scope checks: analyzeScopeNode / analyzeMachineNode  *)
(*             / analyzeStateNode over bounded syntax trees                 *)
(*   Spec      the import machinery: analyze, analyzeImportNode,            *)
(*             requireWireStateFile, analyzeUseDirectiveNode and the Cache, *)
(*             one step per run-to-completion segment between awaits        *)
(* Strings the code inspects character by character (events, command line   *)
(* arguments) are sequences of one-character strings.                       *)
(***************************************************************************)
EXTENDS Integers, Sequences, FiniteSets, TLC

VARIABLES
    argv,       \* process.argv.slice(2)
    cli,        \* what the process did: Pending while main has not run
    ast,        \* the parsed ScopeNode handed to analyze
    result,     \* the promise analyze(ast) returned
    dirs,       \* options.dirs of makeAnalyzer: the search directories
    fs,         \* the file system: path -> "file", "locked", "dir" or "EACCES"
    cache,      \* the Cache of makeAnalyzer: key -> index into promises
    promises,   \* the promises requireWireStateFile has handed to cache.set
    calls,      \* the invocations of requireWireStateFile
    analyses,   \* the invocations of analyzeScopeNode
    reads       \* the paths readFile has been called with, in order

ivars == <<dirs, fs, cache, promises, calls, analyses, reads>>

vars == <<argv, cli, ast, result, dirs, fs, cache, promises, calls, analyses, reads>>

\* A promise that has not settled, a process that has not exited
Pending == [kind |-> "pending"]

\* The variables of a specification that does not use them
IdleTree ==
    /\ ast = Pending
    /\ result = Pending

IdleCli ==
    /\ argv = <<>>
    /\ cli = Pending

IdleImport ==
    /\ dirs = <<>>
    /\ fs = <<>>
    /\ cache = <<>>
    /\ promises = <<>>
    /\ calls = <<>>
    /\ analyses = <<>>
    /\ reads = <<>>

\* An optional string: JavaScript's undefined, or a string
Undefined == [defined |-> FALSE, str |-> <<>>]
Some(s) == [defined |-> TRUE, str |-> s]

(***************************************************************************)
(* Strings                                                                  *)
(***************************************************************************)

\* UTF-16 code unit of the characters the model uses (Array.prototype.sort
\* without a comparator orders strings by code unit).
CharCode(c) ==
    CASE c = " " -> 32
      [] c = "," -> 44
      [] c = "-" -> 45
      [] c = "." -> 46
      [] c = "=" -> 61
      [] c = "a" -> 97
      [] c = "b" -> 98
      [] OTHER -> 120

RECURSIVE StrLess(_, _)
\* s < t in JavaScript's string order
StrLess(s, t) ==
    IF t = <<>> THEN FALSE
    ELSE IF s = <<>> THEN TRUE
    ELSE IF CharCode(Head(s)) # CharCode(Head(t))
         THEN CharCode(Head(s)) < CharCode(Head(t))
    ELSE StrLess(Tail(s), Tail(t))

\* String.prototype.startsWith
StartsWith(s, p) ==
    /\ Len(p) <= Len(s)
    /\ SubSeq(s, 1, Len(p)) = p

\* String.prototype.indexOf for one character, 0-based, -1 when absent
IndexOfChar(s, c) ==
    IF \E i \in 1..Len(s) : s[i] = c
    THEN (CHOOSE i \in 1..Len(s) : s[i] = c /\ \A j \in 1..(i - 1) : s[j] # c) - 1
    ELSE -1

RECURSIVE Split(_, _)
\* String.prototype.split on a one-character separator: always at least one part
Split(s, sep) ==
    LET k == IndexOfChar(s, sep)
    IN  IF k < 0 THEN <<s>>
        ELSE <<SubSeq(s, 1, k)>> \o Split(SubSeq(s, k + 2, Len(s)), sep)

RECURSIVE Join(_, _)
\* Array.prototype.join with a one-character separator
Join(parts, sep) ==
    IF parts = <<>> THEN <<>>
    ELSE IF Len(parts) = 1 THEN parts[1]
    ELSE parts[1] \o <<sep>> \o Join(Tail(parts), sep)

RECURSIVE TrimStart(_)
TrimStart(s) ==
    IF s # <<>> /\ Head(s) = " " THEN TrimStart(Tail(s)) ELSE s

RECURSIVE TrimEnd(_)
TrimEnd(s) ==
    IF s # <<>> /\ s[Len(s)] = " " THEN TrimEnd(SubSeq(s, 1, Len(s) - 1)) ELSE s

\* String.prototype.trim
Trim(s) == TrimEnd(TrimStart(s))

RECURSIVE Insert(_, _)
Insert(x, sorted) ==
    IF sorted = <<>> THEN <<x>>
    ELSE IF StrLess(x, Head(sorted)) THEN <<x>> \o sorted
    ELSE <<Head(sorted)>> \o Insert(x, Tail(sorted))

RECURSIVE Sort(_)
\* Array.prototype.sort() of an array of strings
Sort(parts) ==
    IF parts = <<>> THEN <<>> ELSE Insert(Head(parts), Sort(Tail(parts)))

RECURSIVE SeqsUpTo(_, _)
\* the sequences over S of length at most n
SeqsUpTo(S, n) ==
    IF n = 0 THEN { <<>> }
    ELSE LET shorter == SeqsUpTo(S, n - 1)
         IN  shorter \cup { Append(q, x) : q \in { r \in shorter : Len(r) = n - 1 }, x \in S }

\* Array.prototype.findIndex over the outcomes of the predicate, 1-based, 0 when
\* no element satisfies it
FindIndex(flags) ==
    IF \E i \in 1..Len(flags) : flags[i]
    THEN CHOOSE i \in 1..Len(flags) : flags[i] /\ \A j \in 1..(i - 1) : ~flags[j]
    ELSE 0

\* The mutant of normalizeEventName that forgets to trim the parts.
normalizeEventNameNoTrim(eventName) ==
    Join(Sort(Split(eventName, ",")), ",")

\* eventName.split(',').map(e => e.trim()).sort().join(',')
normalizeEventName(eventName) ==
    Join(Sort([i \in 1..Len(Split(eventName, ",")) |-> Trim(Split(eventName, ",")[i])]), ",")

(***************************************************************************)
(* Syntax tree (the nodes of ./ast-nodes as the analyzer reads them)        *)
(***************************************************************************)

NoUseDirective == [present |-> FALSE]

UseDirectiveNode(machineId, line, column) ==
    [present |-> TRUE, machineId |-> machineId, line |-> line, column |-> column]

TransitionNode(event, target, line, column) ==
    [event |-> event, target |-> target, line |-> line, column |-> column]

EventProtocolNode(eventName, line, column) ==
    [eventName |-> eventName, line |-> line, column |-> column]

StateNode(id, stateType, initial, states, transitions, eventProtocols, useDirective, line, column) ==
    [id |-> id, stateType |-> stateType, initial |-> initial, states |-> states,
     transitions |-> transitions, eventProtocols |-> eventProtocols,
     useDirective |-> useDirective, line |-> line, column |-> column]

MachineNode(id, states, transitions, eventProtocols, line, column) ==
    [id |-> id, states |-> states, transitions |-> transitions,
     eventProtocols |-> eventProtocols, line |-> line, column |-> column]

\* file is the path as written, a sequence of segments; _file is set by
\* analyzeImportNode
ImportNode(file, line, column) ==
    [file |-> file, _file |-> <<>>, line |-> line, column |-> column]

ScopeNode(fileName, imports, machines) ==
    [fileName |-> fileName, imports |-> imports, machines |-> machines]

(***************************************************************************)
(* Per-node checks (src/src/analyzer.js)                                    *)
(***************************************************************************)

\* new SemanticError(message, { fileName, line, column })
SemanticError(message, fileName, node) ==
    [name |-> "SemanticError", message |-> message, fileName |-> fileName,
     line |-> node.line, column |-> node.column]

\* A promise fulfilled with the analyzed node
Fulfilled(node) == [kind |-> "fulfilled", node |-> node]

\* A promise rejected with error. rank counts the Promise.all levels the
\* rejection has crossed: a node whose own check throws is rejected at once
\* (rank 0), a node whose child is rejected is rejected one level later.
Rejected(error, rank) == [kind |-> "rejected", error |-> error, rank |-> rank]

\* The mutant of DuplicateIndex that reports the second occurrence.
DuplicateIndexSecond(keys) ==
    IF \E i, j \in 1..Len(keys) : i < j /\ keys[i] = keys[j]
    THEN LET first == CHOOSE i \in 1..Len(keys) :
                          /\ \E j \in (i + 1)..Len(keys) : keys[j] = keys[i]
                          /\ \A h \in 1..(i - 1) : \A j \in (h + 1)..Len(keys) : keys[j] # keys[h]
         IN  CHOOSE j \in (first + 1)..Len(keys) :
                 /\ keys[j] = keys[first]
                 /\ \A h \in (first + 1)..(j - 1) : keys[h] # keys[first]
    ELSE 0

\* for (key of new Set(keys)) { if (keys.indexOf(key) !== keys.lastIndexOf(key))
\*   node = nodes.find(n => key(n) === key) ... }: the Set is walked in order of
\* first occurrence and find returns the first match, so the node reported is
\* the earliest element that occurs again later; 0 when no key repeats
DuplicateIndex(keys) ==
    IF \E i, j \in 1..Len(keys) : i < j /\ keys[i] = keys[j]
    THEN CHOOSE i \in 1..Len(keys) :
             /\ \E j \in (i + 1)..Len(keys) : keys[j] = keys[i]
             /\ \A h \in 1..(i - 1) : \A j \in (h + 1)..Len(keys) : keys[j] # keys[h]
    ELSE 0

Ids(nodes) == [i \in 1..Len(nodes) |-> nodes[i].id]

\* transitions.map(t => normalizeEventName(t.event))
TransitionEvents(transitions) ==
    [i \in 1..Len(transitions) |-> normalizeEventName(transitions[i].event)]

\* eventProtocols.map(p => p.eventName.split(',').map(e => e.trim()).sort().join(','))
ProtocolEvents(eventProtocols) ==
    [i \in 1..Len(eventProtocols) |->
        Join(Sort([k \in 1..Len(Split(eventProtocols[i].eventName, ",")) |->
                      Trim(Split(eventProtocols[i].eventName, ",")[k])]), ",")]

\* resolveState(transitionNode) for a target of one segment: the target names
\* a state among the owner's siblings or among the children of an ancestor.
\* visible is the set of those ids.
resolveState(transitionNode, visible) == transitionNode.target \in visible

\* the first transition (forEach order) whose target does not resolve, 0 if none
UnresolvedIndex(transitions, visible) ==
    FindIndex([i \in 1..Len(transitions) |-> ~resolveState(transitions[i], visible)])

\* states.filter(n => n.initial), as the indexes kept
InitialIndexes(states) == { i \in 1..Len(states) : states[i].initial }

\* states.filter(n => n.initial)[1]
SecondInitial(states) ==
    CHOOSE i \in InitialIndexes(states) :
        Cardinality({ j \in InitialIndexes(states) : j < i }) = 1

\* The mutant of MarkInitial that marks the last child.
MarkInitialLast(states) ==
    IF Len(states) > 0 /\ InitialIndexes(states) = {}
    THEN [states EXCEPT ![Len(states)].initial = TRUE]
    ELSE states

\* if (states.length && !states.some(n => n.initial)) states[0].initial = true
MarkInitial(states) ==
    IF Len(states) > 0 /\ InitialIndexes(states) = {}
    THEN [states EXCEPT ![1].initial = TRUE]
    ELSE states

\* Promise.all over the children's promises: the index of the rejection that
\* arrives first (least rank, then document order), 0 when none is rejected
FirstRejected(outcomes) ==
    IF \E i \in 1..Len(outcomes) : outcomes[i].kind = "rejected"
    THEN CHOOSE i \in 1..Len(outcomes) :
             /\ outcomes[i].kind = "rejected"
             /\ \A j \in 1..Len(outcomes) : outcomes[j].kind = "rejected" =>
                   \/ outcomes[i].rank < outcomes[j].rank
                   \/ outcomes[i].rank = outcomes[j].rank /\ i <= j
    ELSE 0

\* The mutant of NormalizeStateType that leaves atomic states alone.
NormalizeStateTypeKeep(stateNode) == stateNode.stateType

\* if (stateType === 'atomic' && states.length > 0) stateType = 'compound'
NormalizeStateType(stateNode) ==
    IF stateNode.stateType = "atomic" /\ Len(stateNode.states) > 0
    THEN "compound"
    ELSE stateNode.stateType

RECURSIVE analyzeStateNode(_, _, _)
\* analyzeStateNode up to the @use directive: the promise it returns for a
\* state whose subtree carries no use-directive that fails
analyzeStateNode(stateNode, fileName, visible) ==
    LET states == stateNode.states
        dupState == DuplicateIndex(Ids(states))
        dupTransition == DuplicateIndex(TransitionEvents(stateNode.transitions))
        dupProtocol == DuplicateIndex(ProtocolEvents(stateNode.eventProtocols))
        unresolved == UnresolvedIndex(stateNode.transitions, visible)
        marked == MarkInitial(states)
        below == visible \cup { states[i].id : i \in 1..Len(states) }
        children == [i \in 1..Len(states) |-> analyzeStateNode(marked[i], fileName, below)]
        rejected == FirstRejected(children)
    IN  IF stateNode.stateType = "transient" /\ Len(states) > 0
        THEN Rejected(SemanticError("Transient states cannot have child states",
                                    fileName, states[1]), 0)
        ELSE IF dupState # 0
        THEN Rejected(SemanticError("Duplicate state", fileName, states[dupState]), 0)
        ELSE IF dupTransition # 0
        THEN Rejected(SemanticError("Duplicate transition", fileName,
                                    stateNode.transitions[dupTransition]), 0)
        ELSE IF dupProtocol # 0
        THEN Rejected(SemanticError("Duplicate event protocol", fileName,
                                    stateNode.eventProtocols[dupProtocol]), 0)
        ELSE IF unresolved # 0
        THEN Rejected(SemanticError("Transition target cannot be resolved", fileName,
                                    stateNode.transitions[unresolved]), 0)
        ELSE IF Cardinality(InitialIndexes(states)) > 1
        THEN Rejected(SemanticError("Only one child state can be marked as initial",
                                    fileName, states[SecondInitial(states)]), 0)
        ELSE IF rejected # 0
        THEN Rejected(children[rejected].error, children[rejected].rank + 1)
        ELSE Fulfilled([stateNode EXCEPT
                          !.stateType = NormalizeStateType(stateNode),
                          !.states = [i \in 1..Len(states) |-> children[i].node]])

\* analyzeMachineNode: the promise it returns
analyzeMachineNode(machineNode, fileName) ==
    LET states == machineNode.states
        dupState == DuplicateIndex(Ids(states))
        dupTransition == DuplicateIndex(TransitionEvents(machineNode.transitions))
        dupProtocol == DuplicateIndex(ProtocolEvents(machineNode.eventProtocols))
        visible == { states[i].id : i \in 1..Len(states) }
        unresolved == UnresolvedIndex(machineNode.transitions, visible)
        marked == MarkInitial(states)
        children == [i \in 1..Len(states) |-> analyzeStateNode(marked[i], fileName, visible)]
        rejected == FirstRejected(children)
    IN  IF dupState # 0
        THEN Rejected(SemanticError("Duplicate state", fileName, states[dupState]), 0)
        ELSE IF dupTransition # 0
        THEN Rejected(SemanticError("Duplicate transition", fileName,
                                    machineNode.transitions[dupTransition]), 0)
        ELSE IF dupProtocol # 0
        THEN Rejected(SemanticError("Duplicate event protocol", fileName,
                                    machineNode.eventProtocols[dupProtocol]), 0)
        ELSE IF unresolved # 0
        THEN Rejected(SemanticError("Transition target cannot be resolved", fileName,
                                    machineNode.transitions[unresolved]), 0)
        ELSE IF Cardinality(InitialIndexes(states)) > 1
        THEN Rejected(SemanticError("Only one child state can be marked as initial",
                                    fileName, states[SecondInitial(states)]), 0)
        ELSE IF rejected # 0
        THEN Rejected(children[rejected].error, children[rejected].rank + 1)
        ELSE Fulfilled([machineNode EXCEPT
                          !.states = [i \in 1..Len(states) |-> children[i].node]])

\* The first check of analyzeScopeNode: unique machine IDs
DuplicateMachine(scopeNode) == DuplicateIndex(Ids(scopeNode.machines))

\* scopeNode._machines = await Promise.all(machines.map(analyzeMachineNode))
analyzeMachines(scopeNode) ==
    LET machines == [i \in 1..Len(scopeNode.machines) |->
                        analyzeMachineNode(scopeNode.machines[i], scopeNode.fileName)]
        rejected == FirstRejected(machines)
    IN  IF rejected # 0
        THEN Rejected(machines[rejected].error, machines[rejected].rank + 1)
        ELSE Fulfilled([scopeNode EXCEPT
                          !.machines = [i \in 1..Len(machines) |-> machines[i].node]])

\* analyzeScopeNode for a scope without imports and use-directives: the
\* promise analyze(scopeNode) returns
analyzeScopeNode(scopeNode) ==
    IF DuplicateMachine(scopeNode) # 0
    THEN Rejected(SemanticError("Duplicate machine", scopeNode.fileName,
                                scopeNode.machines[DuplicateMachine(scopeNode)]), 0)
    ELSE analyzeMachines(scopeNode)

(***************************************************************************)
(* Command line (src/unnamed/part_000)                                      *)
(***************************************************************************)

MaxArgs == 5

InFile == <<"i", "n">>
SrcValue == <<"s", "r", "c">>
DirName == <<"-", "-", "d", "i", "r">>
SrcDirName == <<"-", "-", "s", "r", "c", "D", "i", "r">>
GeneratorName == <<"-", "-", "g", "e", "n", "e", "r", "a", "t", "o", "r">>
CacheDirName == <<"-", "-", "c", "a", "c", "h", "e", "D", "i", "r">>
HelpName == <<"-", "-", "h", "e", "l", "p">>
HName == <<"-", "h">>
XstateValue == <<"x", "s", "t", "a", "t", "e">>
JsonValue == <<"j", "s", "o", "n">>
WirestateValue == <<".", "w", "i", "r", "e", "s", "t", "a", "t", "e">>
CValue == <<"c">>

\* "--name=value"
WithValue(name, value) == name \o <<"=">> \o value

\* The arguments a command line is drawn from
ArgUniverse ==
    { InFile, SrcValue, DirName, WithValue(DirName, SrcValue),
      WithValue(SrcDirName, SrcValue), WithValue(GeneratorName, XstateValue), WithValue(CacheDirName, CValue),
      HelpName, HName }

\* args[index].indexOf('=') >= 0 ? args[index].split('=').slice(1).join('=') : args[index + 1]
OptionValue(args, index) ==
    IF IndexOfChar(args[index], "=") >= 0
    THEN Some(Join(Tail(Split(args[index], "=")), "="))
    ELSE IF index + 1 <= Len(args) THEN Some(args[index + 1]) ELSE Undefined

RECURSIVE readNames(_, _, _)
\* names.forEach(name => ...) of readOption for a defaultValue that is a string
\* or null; acc carries argValues, argCount and the error thrown so far
readNames(names, args, acc) ==
    IF names = <<>> \/ acc.error # "" THEN acc
    ELSE
        LET name == Head(names)
            index == FindIndex([i \in 1..Len(args) |-> StartsWith(args[i], name)])
            value == OptionValue(args, index)
        IN  IF index = 0 THEN readNames(Tail(names), args, acc)
            ELSE IF ~value.defined \/ value.str = <<>> \/ StartsWith(value.str, <<"-">>)
                 THEN [acc EXCEPT !.error = "must have a value"]
            ELSE readNames(Tail(names), args,
                    [acc EXCEPT !.argValues = IF acc.argCount = 0 THEN <<value.str>>
                                              ELSE acc.argValues \o <<value.str>>,
                                !.argCount = acc.argCount + 1])

\* readOption(names, args, { defaultValue }) with defaultValue a string or
\* null (Undefined): the value returned, or the message of the Error thrown
readOption(names, args, defaultValue) ==
    LET read == readNames(names, args,
                    [argValues |-> IF defaultValue.defined THEN <<defaultValue.str>> ELSE <<>>,
                     argCount |-> 0, error |-> ""])
    IN  IF read.error # "" THEN [ok |-> FALSE, error |-> read.error, value |-> <<>>]
        ELSE IF read.argCount = 1 THEN [ok |-> TRUE, error |-> "", value |-> read.argValues[1]]
        ELSE IF read.argCount = 0 /\ ~defaultValue.defined
             THEN [ok |-> FALSE, error |-> "is required", value |-> <<>>]
        ELSE [ok |-> FALSE, error |-> "only allows one value", value |-> <<>>]

NoCompile == [inputFileName |-> <<>>, dir |-> <<>>, generatorName |-> <<>>, cacheDir |-> <<>>]

\* The process ends through process.exit(code)
Exited(code, usage) ==
    [kind |-> "exit", exitCode |-> code, usage |-> usage, error |-> "", option |-> <<>>,
     compile |-> NoCompile]

\* main threw before returning a promise: main().then(...) is never reached, so
\* the .catch that exits 10 is not attached and the exception is uncaught
\* (the runtime prints it and ends the process with code 1)
Uncaught(names, message) ==
    [kind |-> "uncaught", exitCode |-> 1, usage |-> FALSE, error |-> message,
     option |-> names[1], compile |-> NoCompile]

\* main returned generate(inputFileName, { dir, generatorName, cacheDir })
Compiling(inputFileName, dir, generatorName, cacheDir) ==
    [kind |-> "compile", exitCode |-> 0, usage |-> FALSE, error |-> "", option |-> <<>>,
     compile |-> [inputFileName |-> inputFileName, dir |-> dir,
                  generatorName |-> generatorName, cacheDir |-> cacheDir]]

\* What main() does with the command line args
main(args) ==
    LET inputIndex == FindIndex([i \in 1..Len(args) |-> ~StartsWith(args[i], <<"-">>)])
        dir == readOption(<<DirName>>, args, Some(<<>>))
        generatorName == readOption(<<GeneratorName>>, args, Some(JsonValue))
        cacheDir == readOption(<<CacheDirName>>, args, Some(WirestateValue))
    IN  IF \E i \in 1..Len(args) : args[i] \in { HelpName, HName } THEN Exited(0, TRUE)
        ELSE IF ~dir.ok THEN Uncaught(<<DirName>>, dir.error)
        ELSE IF ~generatorName.ok THEN Uncaught(<<GeneratorName>>, generatorName.error)
        ELSE IF ~cacheDir.ok THEN Uncaught(<<CacheDirName>>, cacheDir.error)
        ELSE IF inputIndex = 0 \/ args[inputIndex] = <<>> THEN Exited(20, TRUE)
        ELSE Compiling(args[inputIndex], dir.value, generatorName.value, cacheDir.value)

InitCli ==
    /\ argv \in SeqsUpTo(ArgUniverse, MaxArgs)
    /\ cli = Pending
    /\ IdleTree
    /\ IdleImport

\* The process runs main once
Main ==
    /\ cli = Pending
    /\ cli' = main(argv)
    /\ UNCHANGED <<argv, ast, result, ivars>>

NextCli == Main

SpecCli == InitCli /\ [][NextCli]_vars

(***************************************************************************)
(* Bounded syntax trees                                                     *)
(***************************************************************************)

MaxMachines == 3
MaxEntries == 3
MaxStates == 3
MaxChildren == 3

RootFile == <<"root.state">>

StateIds == <<"A", "B", "C", "D", "E", "F">>

StateTypes == { "atomic", "compound", "parallel", "transient", "final" }

\* Event fields as the parser hands them over: a name, a name holding a space,
\* and comma lists with and without a space after the comma
Events ==
    { <<"a">>, <<"b">>, <<"a", " ", "b">>, <<"a", ",", "a">>, <<"a", ",", "b">>,
      <<"b", ",", "a">>, <<"a", ",", " ", "b">>, <<"b", ",", " ", "a">> }

\* line numbers: machine k starts at 100 k; inside it a state j starts at
\* 100 k + 20 j; entries follow their owner in the order of their list
MachineLine(k) == 100 * k
StateLine(k, j) == MachineLine(k) + 20 * j

TransitionsAt(events, target, base, column) ==
    [i \in 1..Len(events) |-> TransitionNode(events[i], target, base + i, column)]

EventProtocolsAt(names, base, column) ==
    [i \in 1..Len(names) |-> EventProtocolNode(names[i], base + 5 + i, column)]

LeafState(id, stateType, initial, line, column) ==
    StateNode(id, stateType, initial, <<>>, <<>>, <<>>, NoUseDirective, line, column)

\* A scope of machines with the given ids, each with one state
MachineInput(ids) ==
    ScopeNode(RootFile, <<>>,
        [k \in 1..Len(ids) |->
            MachineNode(ids[k], <<LeafState("A", "atomic", FALSE, StateLine(k, 1), 3)>>,
                        <<>>, <<>>, MachineLine(k), 1)])

\* One machine with the states A and B, and up to MaxEntries transitions or
\* event protocols owned by the machine or by the state A
EventInput(place, kind, events, target) ==
    LET ownerLine == IF place = "machine" THEN MachineLine(1) ELSE StateLine(1, 1)
        column == IF place = "machine" THEN 3 ELSE 5
        transitions == IF kind = "transition"
                       THEN TransitionsAt(events, target, ownerLine, column) ELSE <<>>
        eventProtocols == IF kind = "protocol"
                          THEN EventProtocolsAt(events, ownerLine, column) ELSE <<>>
        A == StateNode("A", "atomic", FALSE, <<>>,
                       IF place = "state" THEN transitions ELSE <<>>,
                       IF place = "state" THEN eventProtocols ELSE <<>>,
                       NoUseDirective, StateLine(1, 1), 3)
        B == LeafState("B", "atomic", FALSE, StateLine(1, 2), 3)
    IN  ScopeNode(RootFile, <<>>,
            <<MachineNode("M", <<A, B>>,
                          IF place = "machine" THEN transitions ELSE <<>>,
                          IF place = "machine" THEN eventProtocols ELSE <<>>,
                          MachineLine(1), 1)>>)

\* One machine with n states; the state at place p has the given type and
\* one child per element of childFlags, the others are leaves
KindInput(n, p, flags, stateType, childType, childFlags) ==
    LET children == [c \in 1..Len(childFlags) |->
                        LeafState(StateIds[c], childType, childFlags[c],
                                  StateLine(1, p) + 10 + c, 5)]
        states == [j \in 1..n |->
                     IF j = p
                     THEN StateNode(StateIds[j], stateType, flags[j], children, <<>>, <<>>,
                                    NoUseDirective, StateLine(1, j), 3)
                     ELSE LeafState(StateIds[j], "atomic", flags[j], StateLine(1, j), 3)]
    IN  ScopeNode(RootFile, <<>>,
            <<MachineNode("M", states, <<>>, <<>>, MachineLine(1), 1)>>)

\* The scopes analyze is given: up to MaxMachines machines named M or N; up
\* to MaxEntries transitions or event protocols on one owner; up to MaxStates
\* states, one of them with up to MaxChildren children
InitTree ==
    /\ \/ \E ids \in SeqsUpTo({ "M", "N" }, MaxMachines) : ast = MachineInput(ids)
       \/ \E place \in { "machine", "state" }, events \in SeqsUpTo(Events, MaxEntries),
             target \in { "B", "Z" } :
             ast = EventInput(place, "transition", events, target)
       \/ \E place \in { "machine", "state" }, events \in SeqsUpTo(Events, MaxEntries) :
             ast = EventInput(place, "protocol", events, "B")
       \/ \E n \in 1..MaxStates :
             \E p \in 1..n, flags \in [1..n -> BOOLEAN], stateType \in StateTypes,
                childType \in { "atomic", "transient" },
                childFlags \in SeqsUpTo(BOOLEAN, MaxChildren) :
                ast = KindInput(n, p, flags, stateType, childType, childFlags)
    /\ result = Pending
    /\ IdleCli
    /\ IdleImport

\* analyzer.analyze(ast) settles
Analyze ==
    /\ ast # Pending
    /\ result = Pending
    /\ result' = analyzeScopeNode(ast)
    /\ UNCHANGED <<argv, cli, ast, ivars>>

NextTree == Analyze

SpecTree == InitTree /\ [][NextTree]_vars

(***************************************************************************)
(* Properties of the per-node checks                                        *)
(***************************************************************************)

\* the places of keys that repeat an earlier key for the first time
SecondOccurrences(keys) ==
    { j \in 1..Len(keys) : Cardinality({ i \in 1..(j - 1) : keys[i] = keys[j] }) = 1 }

\* the earliest place whose key occurs again later
FirstRepeated(keys) ==
    CHOOSE i \in 1..Len(keys) :
        /\ \E j \in (i + 1)..Len(keys) : keys[j] = keys[i]
        /\ \A h \in 1..(i - 1) : ~\E j \in (h + 1)..Len(keys) : keys[j] = keys[h]

Repeats(keys) == \E i, j \in 1..Len(keys) : i < j /\ keys[i] = keys[j]

\* the trimmed names of a comma list, as a function from name to count
NameCount(event, name) ==
    Cardinality({ i \in 1..Len(Split(event, ",")) : Trim(Split(event, ",")[i]) = name })

\* two comma lists hold the same names the same number of times
SameNames(e, f) ==
    \A name \in { Trim(Split(e, ",")[i]) : i \in 1..Len(Split(e, ",")) }
                \cup { Trim(Split(f, ",")[i]) : i \in 1..Len(Split(f, ",")) } :
        NameCount(e, name) = NameCount(f, name)

\* the machines and states of the scope handed to analyze that own entries
Owners(scopeNode) ==
    { scopeNode.machines[k] : k \in 1..Len(scopeNode.machines) }
    \cup UNION { { scopeNode.machines[k].states[j] : j \in 1..Len(scopeNode.machines[k].states) } :
                 k \in 1..Len(scopeNode.machines) }

\* two of the events hold the same names
Collides(events) ==
    \E i, j \in 1..Len(events) : i < j /\ SameNames(events[i], events[j])

EventsOf(transitions) == [i \in 1..Len(transitions) |-> transitions[i].event]

EventNamesOf(eventProtocols) == [i \in 1..Len(eventProtocols) |-> eventProtocols[i].eventName]

At(error, node) == error.line = node.line /\ error.column = node.column

IsSemanticError(promise, message) ==
    /\ promise.kind = "rejected"
    /\ promise.error.name = "SemanticError"
    /\ promise.error.message = message

\* C5 as written: the error of a duplicate machine, or of a duplicate transition,
\* carries the line and column of the second occurrence.
C5_DuplicateAtSecond ==
    /\ IsSemanticError(result, "Duplicate machine") =>
          \E j \in SecondOccurrences(Ids(ast.machines)) : At(result.error, ast.machines[j])
    /\ IsSemanticError(result, "Duplicate transition") =>
          \E owner \in Owners(ast) :
             \E j \in SecondOccurrences(TransitionEvents(owner.transitions)) :
                At(result.error, owner.transitions[j])

\* C5 amended: two machines with the same ID, or two transitions of one owner
\* with equal normalized events, make analysis fail with a SemanticError, and
\* the duplicate's error carries the line and column of the first occurrence
\* in document order.
C5_DuplicateAtFirst ==
    result # Pending =>
        /\ Repeats(Ids(ast.machines)) =>
              /\ IsSemanticError(result, "Duplicate machine")
              /\ At(result.error, ast.machines[FirstRepeated(Ids(ast.machines))])
              /\ result.error.fileName = ast.fileName
        /\ \A owner \in Owners(ast) :
              Repeats(TransitionEvents(owner.transitions)) =>
                 /\ result.kind = "rejected" /\ result.error.name = "SemanticError"
                 /\ ~Repeats(Ids(ast.machines)) =>
                       /\ IsSemanticError(result, "Duplicate transition")
                       /\ At(result.error,
                             owner.transitions[FirstRepeated(TransitionEvents(owner.transitions))])
        /\ IsSemanticError(result, "Duplicate transition") =>
              \E owner \in Owners(ast) :
                 /\ Repeats(TransitionEvents(owner.transitions))
                 /\ At(result.error,
                       owner.transitions[FirstRepeated(TransitionEvents(owner.transitions))])

\* analysis failed on a duplicate transition whose first occurrence is not
\* the first transition of its owner, and on a duplicate machine likewise
C5_Witness ==
    \/ /\ IsSemanticError(result, "Duplicate transition")
       /\ \E owner \in Owners(ast) :
             /\ Len(owner.transitions) = 3
             /\ FirstRepeated(TransitionEvents(owner.transitions)) = 2
             /\ At(result.error, owner.transitions[2])
    \/ /\ IsSemanticError(result, "Duplicate machine")
       /\ Len(ast.machines) = 3
       /\ At(result.error, ast.machines[2])

\* C6: for transitions and for event protocols, on a machine and on a state,
\* analysis fails with the duplicate's SemanticError exactly when two entries
\* of one owner hold the same names after trimming, whatever their order; and
\* normalizing a normalized event changes nothing.
C6_NormalizedCollision ==
    (result # Pending /\ ~Repeats(Ids(ast.machines))) =>
        /\ (\E owner \in Owners(ast) : Collides(EventsOf(owner.transitions)))
              <=> IsSemanticError(result, "Duplicate transition")
        /\ (\E owner \in Owners(ast) : Collides(EventNamesOf(owner.eventProtocols)))
              <=> IsSemanticError(result, "Duplicate event protocol")
        /\ \A owner \in Owners(ast) :
              /\ \A i \in 1..Len(owner.transitions) :
                    LET once == normalizeEventName(owner.transitions[i].event)
                    IN  /\ normalizeEventName(once) = once
                        /\ SameNames(once, owner.transitions[i].event)
              /\ \A i \in 1..Len(owner.eventProtocols) :
                    LET once == ProtocolEvents(owner.eventProtocols)[i]
                    IN  ProtocolEvents(<<[owner.eventProtocols[i] EXCEPT !.eventName = once]>>)[1]
                           = once

\* analysis failed on two transitions of a state written "a,b" and "b, a"
C6_Witness ==
    /\ IsSemanticError(result, "Duplicate transition")
    /\ \E owner \in Owners(ast) :
          /\ Len(owner.transitions) = 2
          /\ owner.transitions[1].event = <<"a", ",", "b">>
          /\ owner.transitions[2].event = <<"b", ",", " ", "a">>

\* the machines and states of scopeNode that have children, as paths: <<k>>
\* is machine k, <<k, j>> is state j of machine k
Parents(scopeNode) ==
    { <<k>> : k \in { k \in 1..Len(scopeNode.machines) : Len(scopeNode.machines[k].states) > 0 } }
    \cup UNION { { <<k, j>> : j \in { j \in 1..Len(scopeNode.machines[k].states) :
                                        Len(scopeNode.machines[k].states[j].states) > 0 } } :
                 k \in 1..Len(scopeNode.machines) }

ChildrenAt(scopeNode, path) ==
    IF Len(path) = 1 THEN scopeNode.machines[path[1]].states
    ELSE scopeNode.machines[path[1]].states[path[2]].states

\* C7: in the scope a successful analysis returns, every machine and state
\* with children has exactly one initial child, the first child when the
\* source marked none; a source that marks more than one child of a parent
\* fails with a SemanticError, and the error about it is at the second
\* marked child.
C7_InitialCompletion ==
    /\ result.kind = "fulfilled" =>
          \A path \in Parents(ast) :
             LET before == ChildrenAt(ast, path)
                 after == ChildrenAt(result.node, path)
             IN  /\ Cardinality(InitialIndexes(after)) = 1
                 /\ InitialIndexes(before) = {} => InitialIndexes(after) = { 1 }
                 /\ InitialIndexes(before) # {} => InitialIndexes(after) = InitialIndexes(before)
    /\ (result # Pending
        /\ \E path \in Parents(ast) : Cardinality(InitialIndexes(ChildrenAt(ast, path))) > 1)
          => result.kind = "rejected" /\ result.error.name = "SemanticError"
    /\ IsSemanticError(result, "Only one child state can be marked as initial") =>
          \E path \in Parents(ast) :
             LET before == ChildrenAt(ast, path)
             IN  /\ Cardinality(InitialIndexes(before)) > 1
                 /\ \E i \in InitialIndexes(before) :
                       /\ Cardinality({ h \in InitialIndexes(before) : h < i }) = 1
                       /\ At(result.error, before[i])

\* analysis succeeded on a scope in which a machine and one of its states
\* both had several children and none marked initial
C7_Witness ==
    /\ result.kind = "fulfilled"
    /\ \E path \in Parents(ast) :
          /\ Len(path) = 2
          /\ Len(ChildrenAt(ast, path)) >= 2
          /\ InitialIndexes(ChildrenAt(ast, path)) = {}
          /\ Len(ChildrenAt(ast, <<path[1]>>)) >= 2
          /\ InitialIndexes(ChildrenAt(ast, <<path[1]>>)) = {}

\* the states of the scope as paths <<k, j>> and <<k, j, c>>
StatePaths(scopeNode) ==
    UNION { { <<k, j>> : j \in 1..Len(scopeNode.machines[k].states) } :
            k \in 1..Len(scopeNode.machines) }
    \cup UNION { UNION { { <<k, j, c>> : c \in 1..Len(scopeNode.machines[k].states[j].states) } :
                         j \in 1..Len(scopeNode.machines[k].states) } :
                 k \in 1..Len(scopeNode.machines) }

StateAt(scopeNode, path) ==
    IF Len(path) = 2 THEN scopeNode.machines[path[1]].states[path[2]]
    ELSE scopeNode.machines[path[1]].states[path[2]].states[path[3]]

\* C8: in the scope a successful analysis returns no atomic and no transient
\* state has a child: an atomic state with children has become compound,
\* every other state keeps its kind, and a transient state with a child
\* makes analysis fail with a SemanticError.
C8_StateKinds ==
    /\ result.kind = "fulfilled" =>
          \A path \in StatePaths(ast) :
             LET before == StateAt(ast, path)
                 after == StateAt(result.node, path)
             IN  /\ after.stateType \in { "atomic", "transient" } => Len(after.states) = 0
                 /\ Len(after.states) = Len(before.states)
                 /\ after.stateType =
                       IF before.stateType = "atomic" /\ Len(before.states) > 0
                       THEN "compound" ELSE before.stateType
    /\ (result # Pending
        /\ \E path \in StatePaths(ast) :
              StateAt(ast, path).stateType = "transient" /\ Len(StateAt(ast, path).states) > 0)
          => result.kind = "rejected" /\ result.error.name = "SemanticError"

\* analysis succeeded on a scope holding an atomic state with children
C8_Witness ==
    /\ result.kind = "fulfilled"
    /\ \E path \in StatePaths(ast) :
          /\ StateAt(ast, path).stateType = "atomic"
          /\ Len(StateAt(ast, path).states) > 0
          /\ StateAt(result.node, path).stateType = "compound"

(***************************************************************************)
(* The command line as documented (src/docs/CLI.md): the options that take  *)
(* a value are --srcDir, --cacheDir and --generator.                        *)
(***************************************************************************)

DocumentedOptions == { SrcDirName, CacheDirName, GeneratorName }

\* args[i] is written as the value of the option before it ("--name value")
IsOptionValue(args, i) ==
    /\ i > 1
    /\ args[i - 1] \in DocumentedOptions \cup { DirName }

\* the positional arguments: neither an option nor the value of one
Positionals(args) ==
    { i \in 1..Len(args) : ~StartsWith(args[i], <<"-">>) /\ ~IsOptionValue(args, i) }

HelpAsked(args) == \E i \in 1..Len(args) : args[i] \in { HelpName, HName }

\* the places where the option is given, as "--name value" or "--name=value"
Given(args, name) ==
    { i \in 1..Len(args) : args[i] = name \/ StartsWith(args[i], name \o <<"=">>) }

\* the value the command line gives the option at place i
GivenValue(args, name, i) ==
    IF args[i] = name THEN args[i + 1]
    ELSE SubSeq(args[i], Len(name) + 2, Len(args[i]))

\* one input file, no help, each documented option absent or given once with
\* a value, and nothing else on the command line
WellFormed(args) ==
    /\ ~HelpAsked(args)
    /\ Cardinality(Positionals(args)) = 1
    /\ \A name \in DocumentedOptions :
          /\ Cardinality(Given(args, name)) <= 1
          /\ \A i \in Given(args, name) :
                args[i] = name => i + 1 <= Len(args) /\ ~StartsWith(args[i + 1], <<"-">>)
    /\ \A i \in 1..Len(args) :
          \/ i \in Positionals(args)
          \/ IsOptionValue(args, i) /\ args[i - 1] # DirName
          \/ \E name \in DocumentedOptions : i \in Given(args, name)

\* the value the documentation promises for the option
Documented(args, name, default) ==
    IF Given(args, name) = {} THEN default
    ELSE GivenValue(args, name, CHOOSE i \in Given(args, name) : TRUE)

\* C9: with no positional input file and neither --help nor -h, the process
\* prints usage and exits with code 20, whatever options are present.
C9_MissingInputExits20 ==
    (cli # Pending /\ Positionals(argv) = {} /\ ~HelpAsked(argv))
        => (cli.kind = "exit" /\ cli.exitCode = 20 /\ cli.usage)

\* C10: on a well-formed command line the process goes on to compile, each of
\* --srcDir, --cacheDir and --generator having its given value, or its
\* documented default when absent; an absent option is never an error.
C10_OptionDefaults ==
    (cli # Pending /\ WellFormed(argv))
        => /\ cli.kind = "compile"
           /\ cli.compile.inputFileName = argv[CHOOSE i \in Positionals(argv) : TRUE]
           /\ cli.compile.dir = Documented(argv, SrcDirName, <<>>)
           /\ cli.compile.generatorName = Documented(argv, GeneratorName, JsonValue)
           /\ cli.compile.cacheDir = Documented(argv, CacheDirName, WirestateValue)

(***************************************************************************)
(* Imports: paths, the file system and the Cache                            *)
(***************************************************************************)

\* A path is its sequence of segments: "./m.state" is <<".", "m.state">>.

\* Path.join(a, b): the segments of both, without the "." segments
PathJoin(a, b) == SelectSeq(a \o b, LAMBDA segment : segment # ".")

\* importNode.file.startsWith('./') || importNode.file.startsWith('.\\')
IsRelative(file) == Len(file) > 1 /\ file[1] = "."

\* dirs = dirs.length === 0 ? [ '.' ] : dirs
EffectiveDirs(searchDirs) == IF Len(searchDirs) = 0 THEN << <<".">> >> ELSE searchDirs

\* const fileNames = dirs.map(dir => Path.join(dir, wireStateFile))
FileNames(searchDirs, wireStateFile) ==
    [i \in 1..Len(EffectiveDirs(searchDirs)) |->
        PathJoin(EffectiveDirs(searchDirs)[i], wireStateFile)]

\* An Error with a code: the one requireWireStateFile throws, and those of fs
CodedError(code) ==
    [name |-> "Error", message |-> code, code |-> code, fileName |-> <<>>,
     line |-> 0, column |-> 0]

\* reading a property of undefined
TypeError(message) ==
    [name |-> "TypeError", message |-> message, code |-> "", fileName |-> <<>>,
     line |-> 0, column |-> 0]

\* FS.stat(fileName): "file", "locked" (a file its reader may not open) or
\* "dir" for what is there, else the error code. A path below a regular file
\* fails with ENOTDIR, a missing one with ENOENT.
Stat(fileName) ==
    IF fileName \in DOMAIN fs THEN fs[fileName]
    ELSE IF \E k \in 1..(Len(fileName) - 1) :
               /\ SubSeq(fileName, 1, k) \in DOMAIN fs
               /\ fs[SubSeq(fileName, 1, k)] = "file"
         THEN "ENOTDIR"
    ELSE "ENOENT"

\* the codes the stat callbacks of a call rethrow: every one but ENOENT
StatErrors(fileNames) ==
    { Stat(fileNames[i]) : i \in 1..Len(fileNames) } \ { "file", "locked", "dir", "ENOENT" }

\* stats.isFile()
IsFile(fileName) == Stat(fileName) \in { "file", "locked" }

\* matchResults.findIndex(result => result) over stats.isFile(), 1-based
FirstMatched(fileNames) ==
    FindIndex([i \in 1..Len(fileNames) |-> IsFile(fileNames[i])])

\* cache.has(key)
CacheHas(key) == key \in DOMAIN cache

\* cache.get(key): the index of the promise registered under key, 0 for
\* undefined when there is none
CacheGet(map, key) == IF key \in DOMAIN map THEN map[key] ELSE 0

\* cache.set(key, promise)
CacheSet(key, promise) ==
    [k \in DOMAIN cache \cup { key } |-> IF k = key THEN promise ELSE cache[k]]

(***************************************************************************)
(* The files of the project, as the parser returns them                     *)
(***************************************************************************)

LeafMachine(id, useDirective, line) ==
    MachineNode(id,
        <<StateNode("S", "atomic", FALSE, <<>>, <<>>, <<>>, useDirective, line + 1, 3)>>,
        <<>>, <<>>, line, 1)

Imports(files) == [i \in 1..Len(files) |-> ImportNode(files[i], i, 1)]

\* parser.parse(tokenizer.tokenize(text)) of the file read at fileName:
\*   m.state  @machine M
\*   t.state  @include "m.state", @machine T
\*   a.state  @include "b.state", @machine A
\*   b.state  @include "a.state", @machine B
Parse(fileName) ==
    LET base == fileName[Len(fileName)]
    IN  CASE base = "m.state" ->
               ScopeNode(fileName, <<>>, <<LeafMachine("M", NoUseDirective, 10)>>)
          [] base = "t.state" ->
               ScopeNode(fileName, Imports(<< <<"m.state">> >>),
                         <<LeafMachine("T", NoUseDirective, 10)>>)
          [] base = "a.state" ->
               ScopeNode(fileName, Imports(<< <<"b.state">> >>),
                         <<LeafMachine("A", NoUseDirective, 10)>>)
          [] base = "b.state" ->
               ScopeNode(fileName, Imports(<< <<"a.state">> >>),
                         <<LeafMachine("B", NoUseDirective, 10)>>)
          [] OTHER -> ScopeNode(fileName, <<>>, <<>>)

(***************************************************************************)
(* analyze, analyzeImportNode, requireWireStateFile, analyzeUseDirectiveNode *)
(* One action per segment of code that runs between two awaits.             *)
(***************************************************************************)

\* What an async function has returned: the index of a promise of the cache,
\* 0 for undefined
Returned(promise) == [kind |-> "returned", promise |-> promise]

\* analyzeImportNode: the import with _file set
analyzeImportNode(importNode, parentFileName) ==
    [importNode EXCEPT !._file = IF IsRelative(importNode.file)
                                 THEN PathJoin(parentFileName, importNode.file)
                                 ELSE importNode.file]

\* requireWireStateFile(file, { cache, dirs }) up to its first await. cached
\* tells whether the caller passed a cache; by is the calling analysis
NewCall(wireStateFile, cached, by) ==
    [file |-> wireStateFile, cached |-> cached, by |-> by, pc |-> "stat",
     fileNames |-> FileNames(dirs, wireStateFile), matched |-> <<>>,
     cacheHit |-> FALSE, outcome |-> Pending]

\* analyzeScopeNode(scopeNode.clone(), { cache, dirs }) up to its first await:
\* the machine IDs are checked, then every import is dispatched. promise is
\* the promise of the cache that resolves with this analysis, 0 for the root
Begin(scopeNode, cached, promise, id) ==
    LET imports == [i \in 1..Len(scopeNode.imports) |->
                       analyzeImportNode(scopeNode.imports[i], scopeNode.fileName)]
    IN  IF DuplicateMachine(scopeNode) # 0
        THEN [analysis |->
                [scopeNode |-> scopeNode, cached |-> cached, promise |-> promise,
                 pc |-> "settled", uses |-> <<>>,
                 outcome |-> Rejected(SemanticError("Duplicate machine", scopeNode.fileName,
                                        scopeNode.machines[DuplicateMachine(scopeNode)]), 0)],
              calls |-> <<>>]
        ELSE [analysis |->
                [scopeNode |-> [scopeNode EXCEPT !.imports = imports], cached |-> cached,
                 promise |-> promise, pc |-> "machines", uses |-> <<>>, outcome |-> Pending],
              calls |-> [i \in 1..Len(imports) |-> NewCall(imports[i]._file, cached, id)]]

RECURSIVE UsesOfStates(_)
\* the use-directives of the states and of the states below them
UsesOfStates(states) ==
    IF states = <<>> THEN <<>>
    ELSE UsesOfStates(Head(states).states)
         \o (IF Head(states).useDirective.present THEN <<Head(states).useDirective>> ELSE <<>>)
         \o UsesOfStates(Tail(states))

RECURSIVE UsesOfMachines(_)
UsesOfMachines(machines) ==
    IF machines = <<>> THEN <<>>
    ELSE UsesOfStates(Head(machines).states) \o UsesOfMachines(Tail(machines))

\* scopeNode.machines.find(machineNode => machineNode.id === machineId)
HasMachine(scopeNode, machineId) ==
    \E i \in 1..Len(scopeNode.machines) : scopeNode.machines[i].id = machineId

\* The promise of analysis a settles with outcome
SettleAnalysis(a, outcome) ==
    /\ analyses' = [analyses EXCEPT ![a].pc = "settled", ![a].outcome = outcome]
    /\ promises' = IF analyses[a].promise = 0 THEN promises
                   ELSE [promises EXCEPT ![analyses[a].promise].state = outcome]
    /\ result' = IF a = 1 THEN outcome ELSE result

\* analyzer.analyze(ast): the root scope is checked and its imports dispatched
AnalyzeRoot ==
    /\ Len(analyses) = 1
    /\ analyses[1].pc = "start"
    /\ LET begun == Begin(ast, TRUE, 0, 1)
       IN  /\ analyses' = <<begun.analysis>>
           /\ calls' = calls \o begun.calls
           /\ result' = begun.analysis.outcome
    /\ UNCHANGED <<argv, cli, ast, dirs, fs, cache, promises, reads>>

\* requireWireStateFile, from the stat results to await cache.has(wireStateFile)
StatDone(c) ==
    /\ calls[c].pc = "stat"
    /\ LET fileNames == calls[c].fileNames
           k == FirstMatched(fileNames)
       IN  IF StatErrors(fileNames) # {}
           THEN \E code \in StatErrors(fileNames) :
                   calls' = [calls EXCEPT ![c].pc = "done",
                                          ![c].outcome = Rejected(CodedError(code), 0)]
           ELSE IF k = 0
           THEN calls' = [calls EXCEPT ![c].pc = "done",
                                       ![c].outcome = Rejected(CodedError("ENOENT"), 0)]
           ELSE IF ~calls[c].cached
           THEN calls' = [calls EXCEPT ![c].pc = "done", ![c].matched = fileNames[k],
                                       ![c].outcome = Rejected(TypeError("cache.has"), 0)]
           ELSE calls' = [calls EXCEPT ![c].pc = "has", ![c].matched = fileNames[k],
                                       ![c].cacheHit = CacheHas(calls[c].file)]
    /\ UNCHANGED <<argv, cli, ast, result, dirs, fs, cache, promises, analyses, reads>>

\* requireWireStateFile after await cache.has, on a hit:
\* return cache.get(firstMatchedFileName)
CacheHit(c) ==
    /\ calls[c].pc = "has"
    /\ calls[c].cacheHit
    /\ calls' = [calls EXCEPT ![c].pc = "done",
                              ![c].outcome = Returned(CacheGet(cache, calls[c].matched))]
    /\ UNCHANGED <<argv, cli, ast, result, dirs, fs, cache, promises, analyses, reads>>

\* requireWireStateFile after await cache.has, on a miss: cache.set(wireStateFile,
\* new Promise(...)), whose executor starts readFile, then
\* return cache.get(firstMatchedFileName)
CacheMiss(c) ==
    /\ calls[c].pc = "has"
    /\ ~calls[c].cacheHit
    /\ promises' = Append(promises,
                      [key |-> calls[c].file, fileName |-> calls[c].matched, by |-> c,
                       pc |-> "reading", state |-> Pending])
    /\ cache' = CacheSet(calls[c].file, Len(promises) + 1)
    /\ reads' = Append(reads, calls[c].matched)
    /\ calls' = [calls EXCEPT ![c].pc = "done",
                              ![c].outcome = Returned(CacheGet(cache', calls[c].matched))]
    /\ UNCHANGED <<argv, cli, ast, result, dirs, fs, analyses>>

\* readFile(...).then(..., reject): the promise of the cache is rejected when
\* the file cannot be read
ReadFileFailed(p) ==
    /\ promises[p].pc = "reading"
    /\ Stat(promises[p].fileName) = "locked"
    /\ promises' = [promises EXCEPT ![p].pc = "failed",
                                    ![p].state = Rejected(CodedError("EACCES"), 0)]
    /\ UNCHANGED <<argv, cli, ast, result, dirs, fs, cache, calls, analyses, reads>>

\* readFile(...).then: the text is parsed and resolve(analyze(scopeNode, { dirs }))
\* starts the analysis of the file, without a cache
ReadFileDone(p) ==
    /\ promises[p].pc = "reading"
    /\ Stat(promises[p].fileName) = "file"
    /\ LET begun == Begin(Parse(promises[p].fileName), FALSE, p, Len(analyses) + 1)
       IN  /\ analyses' = Append(analyses, begun.analysis)
           /\ calls' = calls \o begun.calls
           /\ promises' = [promises EXCEPT ![p].pc = "analyzing",
                                           ![p].state = begun.analysis.outcome]
    /\ UNCHANGED <<argv, cli, ast, result, dirs, fs, cache, reads>>

\* analyzeScopeNode after await Promise.all(imports): the machines and their
\* states are checked; what is left is the use-directives
AnalyzeMachineNodes(a) ==
    /\ analyses[a].pc = "machines"
    /\ LET checked == analyzeMachines(analyses[a].scopeNode)
           uses == UsesOfMachines(analyses[a].scopeNode.machines)
       IN  IF checked.kind = "rejected" THEN SettleAnalysis(a, Rejected(checked.error, 0))
           ELSE IF uses = <<>> THEN SettleAnalysis(a, checked)
           ELSE /\ analyses' = [analyses EXCEPT
                                  ![a].pc = "use",
                                  ![a].scopeNode = checked.node,
                                  ![a].uses = [u \in 1..Len(uses) |->
                                                  [node |-> uses[u], pc |-> "lookup",
                                                   gets |-> <<>>]]]
                /\ UNCHANGED <<promises, result>>
    /\ UNCHANGED <<argv, cli, ast, dirs, fs, cache, calls, reads>>

\* the use-directive u of analysis a is resolved: the analysis is fulfilled
\* when it was the last one
UseDone(a, u) ==
    IF \A v \in 1..Len(analyses[a].uses) : v = u \/ analyses[a].uses[v].pc = "done"
    THEN SettleAnalysis(a, Fulfilled(analyses[a].scopeNode))
    ELSE /\ analyses' = [analyses EXCEPT ![a].uses[u].pc = "done"]
         /\ UNCHANGED <<promises, result>>

MachineNotFound(a, u) ==
    Rejected(SemanticError("Machine not found", analyses[a].scopeNode.fileName,
                           analyses[a].uses[u].node), 0)

\* analyzeUseDirectiveNode up to await Promise.all(imports.map(importNode =>
\* cache.get(importNode.file)))
UseLookup(a, u) ==
    /\ analyses[a].pc = "use"
    /\ analyses[a].uses[u].pc = "lookup"
    /\ LET scopeNode == analyses[a].scopeNode
           imports == scopeNode.imports
       IN  IF HasMachine(scopeNode, analyses[a].uses[u].node.machineId)
           THEN UseDone(a, u)
           ELSE IF imports = <<>> THEN SettleAnalysis(a, MachineNotFound(a, u))
           ELSE IF ~analyses[a].cached
           THEN SettleAnalysis(a, Rejected(TypeError("cache.get"), 0))
           ELSE /\ analyses' = [analyses EXCEPT
                                  ![a].uses[u].pc = "await",
                                  ![a].uses[u].gets =
                                      [i \in 1..Len(imports) |-> CacheGet(cache, imports[i].file)]]
                /\ UNCHANGED <<promises, result>>
    /\ UNCHANGED <<argv, cli, ast, dirs, fs, cache, calls, reads>>

\* analyzeUseDirectiveNode after the await: Promise.all rejected with the
\* error of an imported scope
UseRejected(a, u) ==
    /\ analyses[a].pc = "use"
    /\ analyses[a].uses[u].pc = "await"
    /\ \E i \in 1..Len(analyses[a].uses[u].gets) :
          LET g == analyses[a].uses[u].gets[i]
          IN  /\ g # 0
              /\ promises[g].state.kind = "rejected"
              /\ SettleAnalysis(a, Rejected(promises[g].state.error, 0))
    /\ UNCHANGED <<argv, cli, ast, dirs, fs, cache, calls, reads>>

\* analyzeUseDirectiveNode after the await: importedScopeNodes.some(...) looks
\* for the machine in each imported scope in turn; an import the cache did not
\* know is undefined there
UseResolve(a, u) ==
    /\ analyses[a].pc = "use"
    /\ analyses[a].uses[u].pc = "await"
    /\ LET gets == analyses[a].uses[u].gets
           machineId == analyses[a].uses[u].node.machineId
           stop == FindIndex([i \in 1..Len(gets) |->
                                IF gets[i] = 0 THEN TRUE
                                ELSE HasMachine(promises[gets[i]].state.node, machineId)])
       IN  /\ \A i \in 1..Len(gets) : gets[i] # 0 => promises[gets[i]].state.kind = "fulfilled"
           /\ IF stop = 0 THEN SettleAnalysis(a, MachineNotFound(a, u))
              ELSE IF gets[stop] = 0
              THEN SettleAnalysis(a, Rejected(TypeError("scopeNode.machines"), 0))
              ELSE UseDone(a, u)
    /\ UNCHANGED <<argv, cli, ast, dirs, fs, cache, calls, reads>>

(***************************************************************************)
(* The compiles the specification starts from                               *)
(***************************************************************************)

MaxImports == 2

\* the files an @include of the root names
ImportFiles ==
    { <<"m.state">>, <<".", "m.state">>, <<"t.state">>, <<"b.state">>, <<"missing.state">> }

\* the machines an @use of the root names: of m.state, of the root, of no file
UseIds == { "M", "Root", "X" }

UseChoices == { NoUseDirective } \cup { UseDirectiveNode(id, 12, 5) : id \in UseIds }

SearchDirLists == { <<>>, << <<"lib">> >>, << <<"lib">>, <<"vendor">> >> }

Statuses == { "file", "none", "dir", "locked", "EACCES" }

\* the root file: its @include lines, then @machine Root with a state S
RootScope(files, useDirective) ==
    ScopeNode(RootFile, Imports(files), <<LeafMachine("Root", useDirective, 10)>>)

\* The file system: root.state in the working directory; t.state, a.state and
\* b.state in the first search directory; m.state in search directory i as
\* statuses[i] tells
FileSystem(searchDirs, statuses) ==
    LET D == EffectiveDirs(searchDirs)
        entries ==
            { <<RootFile, "file">> }
            \cup { <<PathJoin(D[1], <<f>>), "file">> : f \in { "t.state", "a.state", "b.state" } }
            \cup { <<PathJoin(D[i], <<"m.state">>), statuses[i]>> :
                       i \in { j \in 1..Len(D) : statuses[j] # "none" } }
    IN  [path \in { e[1] : e \in entries } |-> (CHOOSE e \in entries : e[1] = path)[2]]

StartOf(scopeNode) ==
    <<[scopeNode |-> scopeNode, cached |-> TRUE, promise |-> 0, pc |-> "start",
       uses |-> <<>>, outcome |-> Pending]>>

\* A compile: makeAnalyzer({ dirs }) with an empty cache, and a parsed root.
\* Either any root over a file system that holds every file in the first
\* search directory, or a root that includes m.state over any file system, or
\* the root a.state of the cycle a.state <-> b.state.
Init ==
    /\ \/ \E files \in SeqsUpTo(ImportFiles, MaxImports), use \in UseChoices,
             searchDirs \in { <<>>, << <<"lib">> >> } :
             /\ ast = RootScope(files, use)
             /\ dirs = searchDirs
             /\ fs = FileSystem(searchDirs, <<"file">>)
       \/ \E use \in { NoUseDirective, UseDirectiveNode("M", 12, 5) },
             searchDirs \in SearchDirLists :
             \E statuses \in [1..Len(EffectiveDirs(searchDirs)) -> Statuses] :
                /\ ast = RootScope(<< <<"m.state">> >>, use)
                /\ dirs = searchDirs
                /\ fs = FileSystem(searchDirs, statuses)
       \/ \E searchDirs \in { <<>>, << <<"lib">> >> } :
             /\ ast = Parse(<<"a.state">>)
             /\ dirs = searchDirs
             /\ fs = FileSystem(searchDirs, <<"file">>)
    /\ result = Pending
    /\ cache = <<>>
    /\ promises = <<>>
    /\ calls = <<>>
    /\ analyses = StartOf(ast)
    /\ reads = <<>>
    /\ IdleCli

Next ==
    \/ AnalyzeRoot
    \/ \E c \in 1..Len(calls) : StatDone(c)
    \/ \E c \in 1..Len(calls) : CacheHit(c)
    \/ \E c \in 1..Len(calls) : CacheMiss(c)
    \/ \E p \in 1..Len(promises) : ReadFileDone(p)
    \/ \E p \in 1..Len(promises) : ReadFileFailed(p)
    \/ \E a \in 1..Len(analyses) : AnalyzeMachineNodes(a)
    \/ \E a \in 1..Len(analyses) : \E u \in 1..Len(analyses[a].uses) : UseLookup(a, u)
    \/ \E a \in 1..Len(analyses) : \E u \in 1..Len(analyses[a].uses) : UseRejected(a, u)
    \/ \E a \in 1..Len(analyses) : \E u \in 1..Len(analyses[a].uses) : UseResolve(a, u)

Spec == Init /\ [][Next]_vars

(***************************************************************************)
(* Properties of the imports                                                *)
(***************************************************************************)

\* the directory a file lies in
DirOf(fileName) == IF Len(fileName) > 1 THEN SubSeq(fileName, 1, Len(fileName) - 1) ELSE <<".">>

\* The file an @include names, as section 4.1 of the specification resolves it:
\* a path starting with "./" against the directory of the including file, any
\* other against the search directories in order; <<>> when there is none
Included(file, parentFileName) ==
    LET candidates == IF IsRelative(file) THEN <<PathJoin(DirOf(parentFileName), file)>>
                      ELSE FileNames(dirs, file)
        found == { i \in 1..Len(candidates) : Stat(candidates[i]) = "file" }
    IN  IF found = {} THEN <<>>
        ELSE candidates[CHOOSE i \in found : \A j \in found : i <= j]

\* the files the scope includes
IncludedBy(scopeNode) ==
    { Included(scopeNode.imports[i].file, scopeNode.fileName) :
        i \in 1..Len(scopeNode.imports) } \ { <<>> }

RECURSIVE Closure(_, _)
\* the files reached from the files of frontier through @include
Closure(frontier, seen) ==
    IF frontier \subseteq seen THEN seen
    ELSE Closure(UNION { IncludedBy(Parse(f)) : f \in frontier \ seen }, seen \cup frontier)

\* the files the root imports, directly or through other imports
TransitiveImports == Closure(IncludedBy(ast), {})

\* the use-directive of the root's state S, if it has one
RootUse == ast.machines[1].states[1].useDirective

\* machineId names a machine of the root or of a file it imports transitively
Resolvable(machineId) ==
    \/ HasMachine(ast, machineId)
    \/ \E f \in TransitiveImports : HasMachine(Parse(f), machineId)

\* every @include of the root and of the files it reaches names a file
AllIncludesExist ==
    \A f \in { ast.fileName } \cup TransitiveImports :
       LET scopeNode == IF f = ast.fileName THEN ast ELSE Parse(f)
       IN  \A i \in 1..Len(scopeNode.imports) :
              Included(scopeNode.imports[i].file, scopeNode.fileName) # <<>>

\* C1: a logical path is handed to cache.set, read and analyzed at most once
\* in a compile, and a call that found cache.has true returns the promise
\* registered under that path.
C1_AtMostOneAnalysis ==
    /\ \A p, q \in 1..Len(promises) : promises[p].key = promises[q].key => p = q
    /\ \A c \in 1..Len(calls) :
          (calls[c].pc = "done" /\ calls[c].cacheHit) =>
             calls[c].outcome = Returned(CacheGet(cache, calls[c].file))

\* C2: when all includes exist and every file is readable, the analysis of a
\* root whose state carries @use M is fulfilled exactly when M names a machine
\* of the root or of a transitively imported file, and is otherwise rejected
\* with a SemanticError at the use-directive.
C2_UseResolution ==
    (result # Pending /\ Len(ast.machines) = 1 /\ RootUse.present /\ AllIncludesExist
     /\ \A path \in DOMAIN fs : fs[path] = "file")
        => IF Resolvable(RootUse.machineId)
           THEN result.kind = "fulfilled"
           ELSE /\ IsSemanticError(result, "Machine not found")
                /\ At(result.error, RootUse)

\* C3: when an @include of the root names a file that no search directory
\* holds, the promise of analyze is rejected with the ENOENT error.
C3_UnresolvedImportRejects ==
    (result # Pending
     /\ \E i \in 1..Len(ast.imports) :
           /\ ~IsRelative(ast.imports[i].file)
           /\ \A k \in 1..Len(FileNames(dirs, ast.imports[i].file)) :
                 Stat(FileNames(dirs, ast.imports[i].file)[k]) = "ENOENT")
        => /\ result.kind = "rejected"
           /\ result.error.code = "ENOENT"

\* the calls of requireWireStateFile made while analyzing an imported file
ReturnLegs == { c \in 1..Len(calls) : calls[c].by # 1 }

\* C4: in the cycle a.state <-> b.state the scope of each file is produced
\* once, no file is read twice, and the include of a.state in b.state, once
\* it has run, has found and returned an entry of the shared cache.
C4_CycleReusesEntry ==
    ast.fileName = <<"a.state">> =>
        /\ \A a, b \in 1..Len(analyses) :
              analyses[a].scopeNode.fileName = analyses[b].scopeNode.fileName => a = b
        /\ \A i, j \in 1..Len(reads) : reads[i] = reads[j] => i = j
        /\ \A c \in ReturnLegs :
              calls[c].pc = "done" =>
                 /\ calls[c].outcome.kind = "returned"
                 /\ calls[c].outcome.promise # 0

\* the directories, by position, that hold a regular file for the call
Holders(fileNames) == { i \in 1..Len(fileNames) : IsFile(fileNames[i]) }

\* the positions where looking the file up fails other than with not-found
Failing(fileNames) ==
    { i \in 1..Len(fileNames) : Stat(fileNames[i]) \in StatErrors(fileNames) }

\* the lookup of call c is over: its stats are back
LookedUp(c) == calls[c].pc # "stat"

\* the lookup of call c failed with the error code
LookupFailed(c, code) ==
    /\ calls[c].pc = "done"
    /\ calls[c].matched = <<>>
    /\ calls[c].outcome.kind = "rejected"
    /\ calls[c].outcome.error.code = code

\* C11: once a call has looked its file up, (a) when some directory holds a
\* regular file and no directory before the first such one fails, the file
\* used is the one of that first directory, whatever the later directories
\* answer; (b) the lookup fails with ENOENT exactly when no directory holds
\* the file and none fails otherwise; (c) when it fails with another code, the
\* code is the one a directory answered.
C11_FirstDirectoryWins ==
    \A c \in 1..Len(calls) :
       LookedUp(c) =>
          LET fileNames == calls[c].fileNames
              holders == Holders(fileNames)
              first == CHOOSE i \in holders : \A j \in holders : i <= j
          IN  /\ (holders # {} /\ \A j \in Failing(fileNames) : j > first)
                    => calls[c].matched = fileNames[first]
              /\ LookupFailed(c, "ENOENT") <=> (holders = {} /\ Failing(fileNames) = {})
              /\ (calls[c].matched = <<>> /\ ~LookupFailed(c, "ENOENT"))
                    => \E j \in Failing(fileNames) : LookupFailed(c, Stat(fileNames[j]))

\* the use-directives that have looked their imports up in the cache
LookedUpUses ==
    { au \in UNION { { <<a, u>> : u \in 1..Len(analyses[a].uses) } : a \in 1..Len(analyses) } :
        analyses[au[1]].uses[au[2]].gets # <<>> }

\* C12: whenever a use-directive has looked the imports of its scope up in the
\* cache, every lookup obtained a promise (never undefined), and that promise
\* is the one registered for the file of that import.
C12_RegisteredBeforeLookup ==
    \A au \in LookedUpUses :
       LET imports == analyses[au[1]].scopeNode.imports
           gets == analyses[au[1]].uses[au[2]].gets
       IN  \A i \in 1..Len(gets) :
              /\ gets[i] # 0
              /\ promises[gets[i]].key = imports[i]._file

====
